---- MODULE Spec2Model ----
(***************************************************************************)
(* File-handling helpers of src/src/lib.rs over a small filesystem.        *)
(*                                                                         *)
(* The state is the filesystem (one entry per path) and a record of the    *)
(* last call: its arguments, what it returned, the filesystem it started   *)
(* from and which of its steps (open, write, flush) the OS failed.         *)
(* Every public function of lib.rs is one action; the OS failures it can   *)
(* meet are inputs of the action.                                          *)
(***************************************************************************)
EXTENDS Integers, Sequences, FiniteSets, TLC

VARIABLES fs, last

vars == <<fs, last>>

\* ------------------------------------------------------------------ bounds
\* longest `contents` argument, and longest content a file starts with
MaxStrLen == 1
\* bytes the disk holds, all files together
MaxDisk == 3

\* ------------------------------------------------------------ filesystem
Paths == {"p", "q"}

\* the newline writeln! emits
NL == "\n"

RECURSIVE Rep(_)
Rep(n) == IF n = 0 THEN <<>> ELSE Append(Rep(n - 1), "a")

\* the strings passed as `contents`
Strings == {Rep(n) : n \in 0..MaxStrLen}

Absent == [kind |-> "absent", perm |-> "none", data |-> <<>>]
Dir == [kind |-> "dir", perm |-> "rw", data |-> <<>>]
RegFile(pm, d) == [kind |-> "file", perm |-> pm, data |-> d]

Perms == {"rw", "ro", "none"}
Readable(e) == e.perm \in {"rw", "ro"}
Writable(e) == e.perm = "rw"

\* what a path can hold before the first call
InitEntries == {Absent, Dir} \cup {RegFile(pm, d) : pm \in Perms, d \in Strings}

RECURSIVE DiskUsedBy(_, _)
DiskUsedBy(f, ps) ==
  IF ps = {} THEN 0
  ELSE LET q == CHOOSE x \in ps : TRUE IN Len(f[q].data) + DiskUsedBy(f, ps \ {q})

\* bytes held by all files of f
DiskUsed(f) == DiskUsedBy(f, Paths)

\* Path::exists: the path names an entry, whatever its kind
PathExists(f, p) == f[p].kind # "absent"

\* ------------------------------------------------------------ OS calls
\* The OS failures a call can meet: none; the open fails; the write fails
\* after k bytes reached the file; the flush fails.
NoFault == [step |-> "none", k |-> 0]
Faults(n) == {NoFault, [step |-> "open", k |-> 0], [step |-> "flush", k |-> 0]}
               \cup {[step |-> "write", k |-> k] : k \in 0..(n - 1)}

OpenErr(f, kind) == [ok |-> FALSE, err |-> kind, fs |-> f, append |-> FALSE]
\* an opened handle: append says its writes go to the end of the file
OpenOk(f, o) == [ok |-> TRUE, err |-> "none", fs |-> f, append |-> o.append]

\* OpenOptions::open with the options o = [read, write, append, truncate, create]
OpenOptionsOpen(f, p, o, env) ==
  LET e == f[p] IN
  IF env.step = "open" THEN OpenErr(f, "Other")
  ELSE IF e.kind = "absent" THEN
         IF o.create THEN OpenOk([f EXCEPT ![p] = RegFile("rw", <<>>)], o)
         ELSE OpenErr(f, "NotFound")
  ELSE IF e.kind = "dir" THEN
         IF o.write \/ o.append THEN OpenErr(f, "IsADirectory") ELSE OpenOk(f, o)
  ELSE IF o.read /\ ~Readable(e) THEN OpenErr(f, "PermissionDenied")
  ELSE IF (o.write \/ o.append) /\ ~Writable(e) THEN OpenErr(f, "PermissionDenied")
  ELSE IF o.write /\ o.truncate THEN OpenOk([f EXCEPT ![p].data = <<>>], o)
  ELSE OpenOk(f, o)

ReadOpts == [read |-> TRUE, write |-> FALSE, append |-> FALSE,
             truncate |-> FALSE, create |-> FALSE]
WriteOpts(truncate) == [read |-> FALSE, write |-> TRUE, append |-> FALSE,
                        truncate |-> truncate, create |-> TRUE]
AppendOpts == [read |-> FALSE, write |-> FALSE, append |-> TRUE,
               truncate |-> FALSE, create |-> TRUE]

\* File::open(path): read-only, never creates
FileOpen(f, p, env) == OpenOptionsOpen(f, p, ReadOpts, env)

\* File::create(path): write, create, truncate
FileCreate(f, p, env) == OpenOptionsOpen(f, p, WriteOpts(TRUE), env)

\* bytes written at offset pos of data, over what was there
Overwrite(data, pos, bytes) ==
  SubSeq(data, 1, pos) \o bytes \o SubSeq(data, pos + Len(bytes) + 1, Len(data))

\* the bytes of `bytes` that reach the file under env
Accepted(bytes, env) ==
  IF env.step = "write" THEN SubSeq(bytes, 1, env.k) ELSE bytes

\* write_all on the handle h: from offset 0, or at the end of the file when
\* the handle was opened for appending
WriteAll(h, p, bytes, env) ==
  LET f == h.fs
      pos == IF h.append THEN Len(f[p].data) ELSE 0
  IN [f EXCEPT ![p].data = Overwrite(f[p].data, pos, Accepted(bytes, env))]

\* --------------------------------------------------- the functions of lib.rs
\* What a call hands back: the filesystem it leaves and the value it returns
\* (result, and err when the result is an error).
Ret(f, result, err) == [fs |-> f, result |-> result, err |-> err]

OpenFaults == {NoFault, [step |-> "open", k |-> 0]}

\* open_file opening with create(true), as the write helpers do
open_file_creating(f, p, env) ==
  LET r == OpenOptionsOpen(f, p, [ReadOpts EXCEPT !.create = TRUE], env) IN
  IF r.ok THEN Ret(r.fs, "Some", "none") ELSE Ret(r.fs, "None", "none")

open_file(f, p, env) ==
  LET r == FileOpen(f, p, env) IN
  IF r.ok THEN Ret(r.fs, "Some", "none") ELSE Ret(r.fs, "None", "none")

\* open_file_for_writing with .truncate(truncate) left out
open_file_for_writing_no_truncate(f, p, truncate, env) ==
  OpenOptionsOpen(f, p, WriteOpts(FALSE), env)

\* open_file_for_writing with .append(true) in place of .write(true)
open_file_for_writing_appending(f, p, truncate, env) ==
  OpenOptionsOpen(f, p, AppendOpts, env)

open_file_for_writing(f, p, truncate, env) ==
  OpenOptionsOpen(f, p, WriteOpts(truncate), env)

\* open_file_for_appending with .write(true) in place of .append(true)
open_file_for_appending_writing(f, p, env) ==
  OpenOptionsOpen(f, p, WriteOpts(FALSE), env)

open_file_for_appending(f, p, env) == OpenOptionsOpen(f, p, AppendOpts, env)

open_buffered_file_appender(f, p, env) ==
  LET r == open_file_for_appending(f, p, env) IN
  IF r.ok THEN Ret(r.fs, "Ok", "none") ELSE Ret(r.fs, "Err", r.err)

\* writeln!(&mut s, "{}", contents)
Writeln(contents) == contents \o <<NL>>

\* the flush result dropped: let _ = file.flush();
WriteAndFlush_flush_ignored(h, p, bytes, env) ==
  LET w == WriteAll(h, p, bytes, env) IN
  IF env.step = "write" THEN Ret(w, "Err", "WriteFailed") ELSE Ret(w, "Ok", "none")

\* file.write_all(bytes)?; file.flush()?; Ok(()) on the opened handle h
WriteAndFlush(h, p, bytes, env) ==
  LET w == WriteAll(h, p, bytes, env) IN
  IF env.step = "write" THEN Ret(w, "Err", "WriteFailed")
  ELSE IF env.step = "flush" THEN Ret(w, "Err", "FlushFailed")
  ELSE Ret(w, "Ok", "none")

append_to_file(f, p, contents, env) ==
  LET r == open_file_for_appending(f, p, env) IN
  IF ~r.ok THEN Ret(r.fs, "Err", r.err)
  ELSE WriteAndFlush(r, p, Writeln(contents), env)

\* open_buffered_file_writer handing out a handle before anything is opened
open_buffered_file_writer_deferred(f, p, truncate, env) == Ret(f, "Ok", "none")

\* open_buffered_file_writer passing true for truncate
open_buffered_file_writer_truncating(f, p, truncate, env) ==
  LET r == open_file_for_writing(f, p, TRUE, env) IN
  IF r.ok THEN Ret(r.fs, "Ok", "none") ELSE Ret(r.fs, "Err", r.err)

open_buffered_file_writer(f, p, truncate, env) ==
  LET r == open_file_for_writing(f, p, truncate, env) IN
  IF r.ok THEN Ret(r.fs, "Ok", "none") ELSE Ret(r.fs, "Err", r.err)

write_to_file(f, p, truncate, contents, env) ==
  LET r == open_file_for_writing(f, p, truncate, env) IN
  IF ~r.ok THEN Ret(r.fs, "Err", r.err)
  ELSE WriteAndFlush(r, p, contents, env)

\* create_file without the exists check: always File::create
create_file_always_creates(f, p, truncate, env) ==
  LET r == FileCreate(f, p, env) IN
  IF r.ok THEN Ret(r.fs, "Ok", "none") ELSE Ret(r.fs, "Err", r.err)

\* create_file with the `&& !truncate` left out of the check
create_file_exists_only(f, p, truncate, env) ==
  IF PathExists(f, p)
  THEN Ret(f, "Ok", "none")
  ELSE LET r == FileCreate(f, p, env) IN
       IF r.ok THEN Ret(r.fs, "Ok", "none") ELSE Ret(r.fs, "Err", r.err)

\* create_file with the truncate test inverted: exists && truncate
create_file_inverted(f, p, truncate, env) ==
  IF PathExists(f, p) /\ truncate
  THEN Ret(f, "Ok", "none")
  ELSE LET r == FileCreate(f, p, env) IN
       IF r.ok THEN Ret(r.fs, "Ok", "none") ELSE Ret(r.fs, "Err", r.err)

create_file(f, p, truncate, env) ==
  IF PathExists(f, p) /\ ~truncate
  THEN Ret(f, "Ok", "none")
  ELSE LET r == FileCreate(f, p, env) IN
       IF r.ok THEN Ret(r.fs, "Ok", "none") ELSE Ret(r.fs, "Err", r.err)

\* ------------------------------------------------------------ the machine
Succeeded(l) == l.result \in {"Ok", "Some"}

\* One call: the filesystem becomes what the call left, and `last` records
\* the call: its arguments, the OS failure it met, what it returned and the
\* filesystem it started from. `again` says the call before it was the same
\* call (function, path, arguments) and succeeded.
Call(op, p, truncate, contents, env, r) ==
  /\ DiskUsed(r.fs) <= MaxDisk
  /\ fs' = r.fs
  /\ last' = [op |-> op, path |-> p, truncate |-> truncate, contents |-> contents,
              env |-> env, result |-> r.result, err |-> r.err, pre |-> fs,
              again |-> /\ last.op = op /\ last.path = p
                        /\ last.truncate = truncate /\ last.contents = contents
                        /\ Succeeded(last)]

Init ==
  /\ fs \in [Paths -> InitEntries]
  /\ last = [op |-> "none", path |-> "p", truncate |-> FALSE, contents |-> <<>>,
             env |-> NoFault, result |-> "Ok", err |-> "none", pre |-> fs,
             again |-> FALSE]

OpenFile(p) ==
  \E env \in OpenFaults :
    Call("open_file", p, FALSE, <<>>, env, open_file(fs, p, env))

OpenBufferedFileAppender(p) ==
  \E env \in OpenFaults :
    Call("open_buffered_file_appender", p, FALSE, <<>>, env,
         open_buffered_file_appender(fs, p, env))

AppendToFile(p) ==
  \E contents \in Strings : \E env \in Faults(Len(Writeln(contents))) :
    Call("append_to_file", p, FALSE, contents, env,
         append_to_file(fs, p, contents, env))

OpenBufferedFileWriter(p) ==
  \E truncate \in BOOLEAN : \E env \in OpenFaults :
    Call("open_buffered_file_writer", p, truncate, <<>>, env,
         open_buffered_file_writer(fs, p, truncate, env))

WriteToFile(p) ==
  \E truncate \in BOOLEAN : \E contents \in Strings : \E env \in Faults(Len(contents)) :
    Call("write_to_file", p, truncate, contents, env,
         write_to_file(fs, p, truncate, contents, env))

CreateFile(p) ==
  \E truncate \in BOOLEAN : \E env \in OpenFaults :
    Call("create_file", p, truncate, <<>>, env, create_file(fs, p, truncate, env))

Next ==
  \E p \in Paths :
    \/ OpenFile(p)
    \/ OpenBufferedFileAppender(p)
    \/ AppendToFile(p)
    \/ OpenBufferedFileWriter(p)
    \/ WriteToFile(p)
    \/ CreateFile(p)

Spec == Init /\ [][Next]_vars

\* ------------------------------------------------------------ the claims
\* The entry of the called path before the call and now; the content a
\* path held before the call (none when no file was there).
Before == last.pre[last.path]
Now == fs[last.path]
PriorData == Before.data
OthersUntouched == \A q \in Paths \ {last.path} : fs[q] = last.pre[q]

Returned(op, result) == last.op = op /\ last.result = result

\* C1: after write_to_file(p, true, C) returns success the file at p exists
\* and holds exactly C: nothing of the prior content, no newline added.
C1_WriteTruncateYieldsContents ==
  (Returned("write_to_file", "Ok") /\ last.truncate)
    => (Now.kind = "file" /\ Now.data = last.contents)

C1_Witness ==
  /\ Returned("write_to_file", "Ok") /\ last.truncate
  /\ Before.kind = "file" /\ Len(PriorData) > Len(last.contents)
  /\ Len(last.contents) > 0

\* C2: after append_to_file(p, L) returns success the content is the prior
\* content, then L, then exactly one newline.
C2_AppendAddsLineAtEnd ==
  Returned("append_to_file", "Ok")
    => /\ Now.kind = "file"
       /\ Len(Now.data) = Len(PriorData) + Len(last.contents) + 1
       /\ \A i \in 1..Len(Now.data) :
            Now.data[i] = IF i <= Len(PriorData) THEN PriorData[i]
                          ELSE IF i <= Len(PriorData) + Len(last.contents)
                               THEN last.contents[i - Len(PriorData)]
                          ELSE NL

\* a second append to a file an earlier append started: "a\n" becomes "a\n\n"
C2_Witness ==
  /\ Returned("append_to_file", "Ok")
  /\ PriorData = <<"a", NL>>
  /\ Now.data = <<"a", NL, NL>>

\* C3: create_file(p, false) on an existing file returns success and leaves
\* its content (and every other path) as it was.
C3_CreateNoTruncateKeepsContent ==
  (last.op = "create_file" /\ ~last.truncate /\ Before.kind = "file")
    => (last.result = "Ok" /\ Now = Before /\ OthersUntouched)

C3_Witness ==
  /\ Returned("create_file", "Ok") /\ ~last.truncate
  /\ Before.kind = "file" /\ PriorData = <<"a", NL>>

\* C4: after create_file(p, true) returns success, and after
\* create_file(p, false) returns success where nothing existed, the file at p
\* exists with zero length.
C4_CreateLeavesEmptyFile ==
  (Returned("create_file", "Ok") /\ (last.truncate \/ Before.kind = "absent"))
    => (Now.kind = "file" /\ Len(Now.data) = 0)

C4_Witness ==
  /\ Returned("create_file", "Ok") /\ last.truncate
  /\ Before.kind = "file" /\ Len(PriorData) > 0

\* C5: whenever open_buffered_file_writer or open_buffered_file_appender
\* returns a handle, a file exists at p; one that was absent has been created.
C5_HandleMeansFileExists ==
  (last.op \in {"open_buffered_file_writer", "open_buffered_file_appender"}
     /\ last.result = "Ok")
    => /\ Now.kind = "file"
       /\ Before.kind = "absent" => Now = RegFile("rw", <<>>)

C5_Witness ==
  /\ Returned("open_buffered_file_writer", "Ok") /\ ~last.truncate
  /\ Before.kind = "absent"

\* C6: open_file returns Some for a readable file the OS opens, None where
\* no file exists; it never changes the filesystem; and whatever the cause
\* of the failure, the caller gets the same None with no error attached.
OpenFileOsError == FileOpen(last.pre, last.path, last.env).err

C7_CreateNoTruncateIdempotent ==
  (last.op = "create_file" /\ ~last.truncate /\ last.again)
    => (last.result = "Ok" /\ fs = last.pre)

C7_Witness ==
  /\ Returned("create_file", "Ok") /\ ~last.truncate /\ last.again
  /\ Now.kind = "file" /\ Len(Now.data) > 0

\* C8: write_to_file(p, false, C) on an existing file with content P writes
\* from offset 0: the content becomes C followed by the part of P beyond
\* len(C), of length max(len(P), len(C)); it is not P followed by C.
Max(a, b) == IF a >= b THEN a ELSE b

C8_WriteNoTruncateOverwritesInPlace ==
  (Returned("write_to_file", "Ok") /\ ~last.truncate /\ Before.kind = "file")
    => /\ Now.kind = "file"
       /\ Len(Now.data) = Max(Len(PriorData), Len(last.contents))
       /\ \A i \in 1..Len(Now.data) :
            Now.data[i] = IF i <= Len(last.contents) THEN last.contents[i]
                          ELSE PriorData[i]
       /\ (PriorData # <<>> /\ last.contents # <<>>)
            => Now.data # PriorData \o last.contents

C8_Witness ==
  /\ Returned("write_to_file", "Ok") /\ ~last.truncate
  /\ PriorData = <<NL, NL>> /\ last.contents = <<"a">>
  /\ Now.data = <<"a", NL>>

\* C9: write_to_file and append_to_file return an error exactly when the OS
\* fails the open, the write or the flush. A failed open changes nothing; a
\* failure after the open leaves the file created, truncated as asked, and
\* holding the bytes that were written.
IsWriteCall == last.op \in {"write_to_file", "append_to_file"}
OpenOptsOfCall ==
  IF last.op = "write_to_file" THEN WriteOpts(last.truncate) ELSE AppendOpts
OpenFailed == ~OpenOptionsOpen(last.pre, last.path, OpenOptsOfCall, last.env).ok
LaterFailed == ~OpenFailed /\ last.env.step \in {"write", "flush"}
BytesOfCall ==
  IF last.op = "write_to_file" THEN last.contents ELSE last.contents \o <<NL>>
BytesWritten ==
  IF last.env.step = "write" THEN SubSeq(BytesOfCall, 1, last.env.k) ELSE BytesOfCall
KeptAfterOpen ==
  IF last.op = "write_to_file" /\ last.truncate THEN <<>> ELSE PriorData
ExpectedAfterFailure ==
  IF last.op = "append_to_file" THEN KeptAfterOpen \o BytesWritten
  ELSE BytesWritten \o SubSeq(KeptAfterOpen, Len(BytesWritten) + 1, Len(KeptAfterOpen))

C9_ErrorsSurfaceAndNothingRollsBack ==
  IsWriteCall
    => /\ last.result = "Err" <=> (OpenFailed \/ LaterFailed)
       /\ last.result \in {"Ok", "Err"}
       /\ OpenFailed => fs = last.pre
       /\ LaterFailed => /\ Now.kind = "file"
                         /\ Now.data = ExpectedAfterFailure
                         /\ OthersUntouched

\* the flush fails after a truncating write: the old content is gone, the
\* new bytes are in the file, and the call returns the error
C9_Witness ==
  /\ Returned("write_to_file", "Err") /\ last.truncate
  /\ last.env.step = "flush"
  /\ Len(PriorData) > Len(last.contents)
  /\ Now.data = last.contents /\ Now.data # PriorData

\* C10: a handle from open_buffered_file_writer(p, true) means the file is
\* already empty; handles from open_buffered_file_writer(p, false) and
\* open_buffered_file_appender(p) leave the content as it was.
C10_TruncateHappensAtOpen ==
  /\ (Returned("open_buffered_file_writer", "Ok") /\ last.truncate)
       => (Now.kind = "file" /\ Len(Now.data) = 0)
  /\ (Returned("open_buffered_file_writer", "Ok") /\ ~last.truncate)
       => Now.data = PriorData
  /\ Returned("open_buffered_file_appender", "Ok") => Now.data = PriorData

C10_Witness ==
  /\ Returned("open_buffered_file_writer", "Ok") /\ last.truncate
  /\ Before.kind = "file" /\ Len(PriorData) > 0 /\ Len(Now.data) = 0

====
